---- MODULE Spec2Model ----
(***************************************************************************)
(* KenPom ratings pipeline: kenpom_plot.py (fetch_kenpom_data,             *)
(* point_in_polygon, create_plot, main) and the Airflow task               *)
(* run_kenpom_plot of dags/kenpom_plot_dag.py.                             *)
(*                                                                         *)
(* Coordinates are in tenths (64.5 is 645), so that every comparison of    *)
(* the crossing test is exact integer arithmetic.                          *)
(***************************************************************************)
EXTENDS Integers, Sequences, FiniteSets, TLC

VARIABLES
    pc,                \* position in the run
    env_key,           \* os.getenv('KENPOM_API_KEY') (environment and .env file)
    airflow_key,       \* outcome of the Airflow import and Variable.get("KENPOM_API_KEY")
    year_var,          \* outcome of Variable.get("KENPOM_YEAR") in the DAG task
    execution_date,    \* context's execution_date / data_interval_start
    upstream,          \* what the ratings API answers: status and JSON rows
    year,              \* main's year argument
    API_KEY,           \* fetch_kenpom_data's local API_KEY
    airflow_consulted, \* whether the Airflow Variable lookup was attempted
    requests,          \* HTTP requests issued so far
    df,                \* the DataFrame of team rows
    idx,               \* next DataFrame index of the classification loop
    inside_trapezoid, outside_trapezoid, inside_data, outside_data,
    date_str,          \* the season label of the title
    fig,               \* the traces of the figure, in order
    dir_created, html_written, png_written,
    log,               \* log records, in order
    trace,             \* the stages main has started, in order
    error,             \* the exception in flight
    result             \* what main gave its caller

vars == <<pc, env_key, airflow_key, year_var, execution_date, upstream, year,
          API_KEY, airflow_consulted, requests, df, idx, inside_trapezoid,
          outside_trapezoid, inside_data, outside_data, date_str, fig,
          dir_created, html_written, png_written, log, trace, error, result>>

-----------------------------------------------------------------------------
\* Bounds of the model

MaxRows == 3
MaxLen == 2
TempoMin == 615
TempoMax == 730
MarginMin == 150
MarginCount == 30

-----------------------------------------------------------------------------
\* Python values

NoneVal == [kind |-> "none", s |-> ""]
Str(s) == [kind |-> "str", s |-> s]
Raises(e) == [kind |-> "raise", s |-> e]

NoYear == [kind |-> "none", val |-> 0]
IntYear(n) == [kind |-> "int", val |-> n]

NoDate == [kind |-> "none", year |-> 0]
Date(y) == [kind |-> "date", year |-> y]

NoStr == [kind |-> "none", s |-> <<>>]
CharStr(s) == [kind |-> "str", s |-> s]
RaisesStr == [kind |-> "raise", s |-> <<>>]

\* Truthiness of an Optional[str]: None and the empty string are falsy.
Truthy_NoneIsTrue(v) == v.kind = "none" \/ (v.kind = "str" /\ v.s # "")
Truthy(v) == v.kind = "str" /\ v.s # ""

TruthyStr(v) == v.kind = "str" /\ v.s # <<>>

RECURSIVE SeqsUpTo(_, _)
SeqsUpTo(S, n) ==
    IF n = 0 THEN {<<>>}
    ELSE LET shorter == SeqsUpTo(S, n - 1)
         IN  shorter \cup {Append(s, c) : s \in shorter, c \in S}

-----------------------------------------------------------------------------
\* point_in_polygon: matplotlib's Path.contains_point with radius 0, the
\* crossing test over the consecutive vertex pairs of the path, closed by the
\* edge from the last vertex back to the first.

trapezoid_points == << <<645, 200>>, <<702, 200>>, <<720, 400>>, <<625, 400>> >>

\* Whether the +X ray from (tx, ty) crosses the edge v0 -> v1.
Crosses(tx, ty, v0, v1) ==
    LET yflag0 == v0[2] >= ty
        yflag1 == v1[2] >= ty
    IN  /\ yflag0 # yflag1
        /\ ((v1[2] - ty) * (v0[1] - v1[1]) >= (v1[1] - tx) * (v0[2] - v1[2])) <=> yflag1

Edges(polygon) ==
    [i \in 1..Len(polygon) |->
        <<polygon[i], polygon[IF i = Len(polygon) THEN 1 ELSE i + 1]>>]

OpenEdges(polygon) ==
    [i \in 1..(Len(polygon) - 1) |-> <<polygon[i], polygon[i + 1]>>]

point_in_polygon_open(point, polygon) ==
    LET e == OpenEdges(polygon)
        hits == {i \in DOMAIN e : Crosses(point[1], point[2], e[i][1], e[i][2])}
    IN  Cardinality(hits) % 2 = 1

point_in_polygon(point, polygon) ==
    LET e == Edges(polygon)
        hits == {i \in DOMAIN e : Crosses(point[1], point[2], e[i][1], e[i][2])}
    IN  Cardinality(hits) % 2 = 1

-----------------------------------------------------------------------------
\* Inputs

DataRows ==
    { [TeamName |-> "Duke", AdjTempo |-> 673, AdjEM |-> 300],
      [TeamName |-> "Army", AdjTempo |-> 600, AdjEM |-> 100],
      [TeamName |-> "Iona", AdjTempo |-> 750, AdjEM |-> 300] }

Tables == SeqsUpTo(DataRows, MaxRows)

Statuses == {200, 404, 500}

Responses ==
    {[status |-> 200, data |-> t] : t \in Tables}
        \cup {[status |-> s, data |-> <<>>] : s \in Statuses \ {200}}

EnvKeys == {NoneVal, Str(""), Str("k_env")}
AirflowKeys ==
    {Raises("ImportError"), Raises("Exception"), NoneVal, Str(""), Str("k_airflow")}

YearChars == {"0", "2", "-", "x"}
YearVars == {RaisesStr, NoStr} \cup {CharStr(s) : s \in SeqsUpTo(YearChars, MaxLen)}

GridPoints ==
    {<<x, MarginMin + 10 * k>> : x \in TempoMin..TempoMax, k \in 0..MarginCount}

-----------------------------------------------------------------------------
\* The program's state at entry to main, for a given environment

Entry(p, ek, ak, yv, ed, up, y) ==
    /\ pc = p
    /\ env_key = ek
    /\ airflow_key = ak
    /\ year_var = yv
    /\ execution_date = ed
    /\ upstream = up
    /\ year = y
    /\ API_KEY = NoneVal
    /\ airflow_consulted = FALSE
    /\ requests = <<>>
    /\ df = <<>>
    /\ idx = 0
    /\ inside_trapezoid = <<>>
    /\ outside_trapezoid = <<>>
    /\ inside_data = <<>>
    /\ outside_data = <<>>
    /\ date_str = [kind |-> "unset", from |-> 0, to |-> 0]
    /\ fig = <<>>
    /\ dir_created = FALSE
    /\ html_written = FALSE
    /\ png_written = FALSE
    /\ log = <<>>
    /\ trace = <<>>
    /\ error = "none"
    /\ result = [kind |-> "none", value |-> ""]

\* main called directly: main() of __main__, main(year=2025) of test_kenpom.py
Init ==
    \E ek \in EnvKeys, ak \in AirflowKeys, up \in Responses,
       y \in {NoYear, IntYear(2025)} :
        Entry("main", ek, ak, NoStr, NoDate, up, y)

-----------------------------------------------------------------------------
\* main and the functions it calls (kenpom_plot.py)

Info(m) == [level |-> "INFO", msg |-> m]
Warning(m) == [level |-> "WARNING", msg |-> m]
Error(m) == [level |-> "ERROR", msg |-> m]

output_path == "output/kenpom_ratings.html"
png_path == "output/kenpom_ratings.png"

\* response.raise_for_status(): raises HTTPError on a 4xx or 5xx status
StatusRaises_ClientOnly(status) == status >= 400 /\ status < 500
StatusRaises(status) == status >= 400 /\ status < 600

\* lines 283-289: os.makedirs(output_dir, exist_ok=True)
MainMakedirs ==
    /\ pc = "main"
    /\ trace' = Append(trace, "makedirs")
    /\ \E ok \in BOOLEAN :
        IF ok
        THEN /\ dir_created' = TRUE
             /\ pc' = "fetch"
             /\ error' = error
        ELSE /\ dir_created' = dir_created
             /\ pc' = "except"
             /\ error' = "OSError"
    /\ UNCHANGED <<env_key, airflow_key, year_var, execution_date, upstream, year,
                   API_KEY, airflow_consulted, requests, df, idx, inside_trapezoid,
                   outside_trapezoid, inside_data, outside_data, date_str, fig,
                   html_written, png_written, log, result>>

\* lines 39-49: the key the precedence chain yields
ResolvedKey_AirflowFirst(ek, ak) ==
    IF ak.kind # "raise" /\ Truthy(ak) THEN ak ELSE ek

ResolvedKey(ek, ak) ==
    IF Truthy(ek) THEN ek
    ELSE IF ak.kind = "raise" THEN ek
    ELSE ak

\* lines 292, 37-61: fetch_kenpom_data resolves the credential
FetchResolveKey ==
    /\ pc = "fetch"
    /\ trace' = Append(trace, "fetch_kenpom_data")
    /\ airflow_consulted' = ~Truthy(env_key)
    /\ API_KEY' = ResolvedKey(env_key, airflow_key)
    /\ IF Truthy(API_KEY')
       THEN /\ pc' = "request"
            /\ error' = error
       ELSE /\ pc' = "except"
            /\ error' = "ValueError"
    /\ UNCHANGED <<env_key, airflow_key, year_var, execution_date, upstream, year,
                   requests, df, idx, inside_trapezoid, outside_trapezoid,
                   inside_data, outside_data, date_str, fig, dir_created,
                   html_written, png_written, log, result>>

\* lines 63-74: the HTTP GET, raise_for_status, the DataFrame
FetchRequest ==
    /\ pc = "request"
    /\ requests' = Append(requests, [authorization |-> API_KEY.s, y |-> year])
    /\ IF StatusRaises(upstream.status)
       THEN /\ pc' = "except"
            /\ error' = "HTTPError"
            /\ df' = df
            /\ log' = Append(log, Info("Fetching KenPom data"))
       ELSE /\ pc' = "create_plot"
            /\ error' = error
            /\ df' = upstream.data
            /\ log' = log \o <<Info("Fetching KenPom data"), Info("Fetched teams")>>
    /\ UNCHANGED <<env_key, airflow_key, year_var, execution_date, upstream, year,
                   API_KEY, airflow_consulted, idx, inside_trapezoid,
                   outside_trapezoid, inside_data, outside_data, date_str, fig,
                   dir_created, html_written, png_written, trace, result>>

\* lines 295, 104-123: create_plot is entered, the title's date string, the empty lists
CreatePlotStart ==
    /\ pc = "create_plot"
    /\ trace' = Append(trace, "create_plot")
    /\ date_str' = IF year.kind = "int" /\ year.val # 0
                   THEN [kind |-> "season", from |-> year.val, to |-> year.val + 1]
                   ELSE [kind |-> "today", from |-> 0, to |-> 0]
    /\ idx' = 0
    /\ inside_trapezoid' = <<>>
    /\ outside_trapezoid' = <<>>
    /\ inside_data' = <<>>
    /\ outside_data' = <<>>
    /\ pc' = "classify"
    /\ UNCHANGED <<env_key, airflow_key, year_var, execution_date, upstream, year,
                   API_KEY, airflow_consulted, requests, df, fig, dir_created,
                   html_written, png_written, log, error, result>>

Datum(row) == [x |-> row.AdjTempo, y |-> row.AdjEM, name |-> row.TeamName]

\* lines 126-140: one row of the loop, on the four lists
ClassifyInto_Both(lists, i, row) ==
    IF point_in_polygon(<<row.AdjTempo, row.AdjEM>>, trapezoid_points)
    THEN [inside_trapezoid |-> Append(lists.inside_trapezoid, i),
          inside_data |-> Append(lists.inside_data, Datum(row)),
          outside_trapezoid |-> Append(lists.outside_trapezoid, i),
          outside_data |-> Append(lists.outside_data, Datum(row))]
    ELSE [lists EXCEPT !.outside_trapezoid = Append(@, i),
                       !.outside_data = Append(@, Datum(row))]

ClassifyInto_Prepend(lists, i, row) ==
    IF point_in_polygon(<<row.AdjTempo, row.AdjEM>>, trapezoid_points)
    THEN [lists EXCEPT !.inside_trapezoid = Append(@, i),
                       !.inside_data = Append(@, Datum(row))]
    ELSE [lists EXCEPT !.outside_trapezoid = <<i>> \o @,
                       !.outside_data = <<Datum(row)>> \o @]

ClassifyInto(lists, i, row) ==
    IF point_in_polygon(<<row.AdjTempo, row.AdjEM>>, trapezoid_points)
    THEN [lists EXCEPT !.inside_trapezoid = Append(@, i),
                       !.inside_data = Append(@, Datum(row))]
    ELSE [lists EXCEPT !.outside_trapezoid = Append(@, i),
                       !.outside_data = Append(@, Datum(row))]

\* lines 125-140: one iteration of for idx, row in df.iterrows()
ClassifyRow ==
    /\ pc = "classify"
    /\ idx < Len(df)
    /\ LET new == ClassifyInto(
                      [inside_trapezoid |-> inside_trapezoid,
                       inside_data |-> inside_data,
                       outside_trapezoid |-> outside_trapezoid,
                       outside_data |-> outside_data], idx, df[idx + 1])
       IN  /\ inside_trapezoid' = new.inside_trapezoid
           /\ inside_data' = new.inside_data
           /\ outside_trapezoid' = new.outside_trapezoid
           /\ outside_data' = new.outside_data
    /\ idx' = idx + 1
    /\ UNCHANGED <<pc, env_key, airflow_key, year_var, execution_date, upstream,
                   year, API_KEY, airflow_consulted, requests, df, date_str, fig,
                   dir_created, html_written, png_written, log, trace, error,
                   result>>

Column(data, f) == [i \in 1..Len(data) |-> data[i][f]]

Markers(name, symbol, data) ==
    [name |-> name, mode |-> "markers", symbol |-> symbol,
     x |-> Column(data, "x"), y |-> Column(data, "y"), text |-> Column(data, "name")]

Outline ==
    [name |-> "Highlighted Zone (Trapezoid)", mode |-> "lines", symbol |-> "",
     x |-> <<645, 702, 720, 625, 645>>, y |-> <<200, 200, 400, 400, 200>>,
     text |-> <<>>]

\* lines 142-201: the traces added to the figure
Traces_Swapped(ind, outd) ==
    <<Outline>>
        \o (IF outd # <<>> THEN <<Markers("Outside Trapezoid", "circle", ind)>> ELSE <<>>)
        \o (IF ind # <<>> THEN <<Markers("Inside Trapezoid", "star", outd)>> ELSE <<>>)

Traces(ind, outd) ==
    <<Outline>>
        \o (IF outd # <<>> THEN <<Markers("Outside Trapezoid", "circle", outd)>> ELSE <<>>)
        \o (IF ind # <<>> THEN <<Markers("Inside Trapezoid", "star", ind)>> ELSE <<>>)

\* lines 142-251: the figure is built once the loop has run out of rows
BuildFigure ==
    /\ pc = "classify"
    /\ idx = Len(df)
    /\ fig' = Traces(inside_data, outside_data)
    /\ pc' = "write_html"
    /\ UNCHANGED <<env_key, airflow_key, year_var, execution_date, upstream, year,
                   API_KEY, airflow_consulted, requests, df, idx, inside_trapezoid,
                   outside_trapezoid, inside_data, outside_data, date_str,
                   dir_created, html_written, png_written, log, trace, error,
                   result>>

\* lines 253-255: fig.write_html(output_path)
WriteHtml ==
    /\ pc = "write_html"
    /\ \E ok \in BOOLEAN :
        IF ok
        THEN /\ html_written' = TRUE
             /\ log' = Append(log, Info("Plot saved"))
             /\ pc' = "write_png"
             /\ error' = error
        ELSE /\ html_written' = html_written
             /\ log' = log
             /\ pc' = "except"
             /\ error' = "OSError"
    /\ UNCHANGED <<env_key, airflow_key, year_var, execution_date, upstream, year,
                   API_KEY, airflow_consulted, requests, df, idx, inside_trapezoid,
                   outside_trapezoid, inside_data, outside_data, date_str, fig,
                   dir_created, png_written, trace, result>>

\* lines 257-263: pio.write_image inside try / except Exception
WritePng_Propagates ==
    /\ pc = "write_png"
    /\ \E ok \in BOOLEAN :
        IF ok
        THEN /\ png_written' = TRUE
             /\ log' = Append(log, Info("PNG saved"))
             /\ pc' = "summary"
             /\ error' = error
        ELSE /\ png_written' = png_written
             /\ log' = log
             /\ pc' = "except"
             /\ error' = "PngError"
    /\ UNCHANGED <<env_key, airflow_key, year_var, execution_date, upstream, year,
                   API_KEY, airflow_consulted, requests, df, idx, inside_trapezoid,
                   outside_trapezoid, inside_data, outside_data, date_str, fig,
                   dir_created, html_written, trace, result>>

WritePng ==
    /\ pc = "write_png"
    /\ \E ok \in BOOLEAN :
        IF ok
        THEN /\ png_written' = TRUE
             /\ log' = Append(log, Info("PNG saved"))
        ELSE /\ png_written' = png_written
             /\ log' = log \o <<Warning("Could not save PNG image"),
                                Info("HTML plot was saved successfully")>>
    /\ pc' = "summary"
    /\ UNCHANGED <<env_key, airflow_key, year_var, execution_date, upstream, year,
                   API_KEY, airflow_consulted, requests, df, idx, inside_trapezoid,
                   outside_trapezoid, inside_data, outside_data, date_str, fig,
                   dir_created, html_written, trace, error, result>>

\* lines 265-272 and 297-298: the summary is logged, create_plot and main return
LogSummary ==
    /\ pc = "summary"
    /\ log' = log
              \o <<Info("Teams inside the trapezoid")>>
              \o (IF inside_trapezoid # <<>> THEN <<Info("Highlighted Teams:")>> ELSE <<>>)
              \o [i \in 1..Len(inside_trapezoid) |->
                     Info(df[inside_trapezoid[i] + 1].TeamName)]
              \o <<Info("Script completed successfully")>>
    /\ result' = [kind |-> "return", value |-> output_path]
    /\ pc' = "returned"
    /\ UNCHANGED <<env_key, airflow_key, year_var, execution_date, upstream, year,
                   API_KEY, airflow_consulted, requests, df, idx, inside_trapezoid,
                   outside_trapezoid, inside_data, outside_data, date_str, fig,
                   dir_created, html_written, png_written, trace, error>>

\* lines 300-302: except Exception: logger.error(...); raise
MainExcept_Swallows ==
    /\ pc = "except"
    /\ log' = Append(log, Error(error))
    /\ result' = [kind |-> "return", value |-> output_path]
    /\ pc' = "returned"
    /\ UNCHANGED <<env_key, airflow_key, year_var, execution_date, upstream, year,
                   API_KEY, airflow_consulted, requests, df, idx, inside_trapezoid,
                   outside_trapezoid, inside_data, outside_data, date_str, fig,
                   dir_created, html_written, png_written, trace, error>>

MainExcept ==
    /\ pc = "except"
    /\ log' = Append(log, Error(error))
    /\ result' = [kind |-> "raise", value |-> error]
    /\ pc' = "raised"
    /\ UNCHANGED <<env_key, airflow_key, year_var, execution_date, upstream, year,
                   API_KEY, airflow_consulted, requests, df, idx, inside_trapezoid,
                   outside_trapezoid, inside_data, outside_data, date_str, fig,
                   dir_created, html_written, png_written, trace, error>>

Next ==
    \/ MainMakedirs
    \/ FetchResolveKey
    \/ FetchRequest
    \/ CreatePlotStart
    \/ ClassifyRow
    \/ BuildFigure
    \/ WriteHtml
    \/ WritePng
    \/ LogSummary
    \/ MainExcept

Spec == Init /\ [][Next]_vars

-----------------------------------------------------------------------------
\* The scheduled task run_kenpom_plot (dags/kenpom_plot_dag.py)

FallbackYear == 2026

Digits == {"0", "2"}
DigitVal(c) == IF c = "2" THEN 2 ELSE 0

AllDigits(s) == Len(s) >= 1 /\ \A i \in 1..Len(s) : s[i] \in Digits

RECURSIVE Decimal(_)
Decimal(s) ==
    IF s = <<>> THEN 0
    ELSE 10 * Decimal(SubSeq(s, 1, Len(s) - 1)) + DigitVal(s[Len(s)])

\* int(year_var): an optional sign, then one or more digits; anything else
\* raises ValueError
IntParses(s) ==
    \/ AllDigits(s)
    \/ Len(s) >= 2 /\ s[1] = "-" /\ AllDigits(Tail(s))

IntOf(s) == IF s[1] = "-" THEN 0 - Decimal(Tail(s)) ELSE Decimal(s)

\* lines 60 and 63: execution_date.year if execution_date else 2026
ExecutionYear(ed) == IF ed.kind = "date" THEN ed.year ELSE FallbackYear

\* lines 54-63: the year the task passes to main
ResolveYear_IgnoresOverride(yv, ed) == ExecutionYear(ed)

ResolveYear(yv, ed) ==
    IF yv.kind = "raise" THEN ExecutionYear(ed)
    ELSE IF TruthyStr(yv)
         THEN IF IntParses(yv.s) THEN IntOf(yv.s) ELSE ExecutionYear(ed)
         ELSE ExecutionYear(ed)

\* lines 48-70: the year is resolved, the output directory made, main called
RunTask ==
    /\ pc = "task"
    /\ year' = IntYear(ResolveYear(year_var, execution_date))
    /\ \E ok \in BOOLEAN :
        IF ok
        THEN /\ dir_created' = TRUE
             /\ pc' = "main"
             /\ error' = error
             /\ result' = result
        ELSE /\ dir_created' = dir_created
             /\ pc' = "task_raised"
             /\ error' = "OSError"
             /\ result' = [kind |-> "raise", value |-> "OSError"]
    /\ UNCHANGED <<env_key, airflow_key, year_var, execution_date, upstream,
                   API_KEY, airflow_consulted, requests, df, idx, inside_trapezoid,
                   outside_trapezoid, inside_data, outside_data, date_str, fig,
                   html_written, png_written, log, trace>>

DagResponses == {r \in Responses : Len(r.data) <= 1}

\* The task is about to run; inside Airflow the import of Variable succeeds
InitDag ==
    \E ek \in {NoneVal, Str("k_env")},
       ak \in {Raises("Exception"), NoneVal, Str("k_airflow")},
       yv \in YearVars, ed \in {NoDate, Date(2025)}, up \in DagResponses :
        Entry("task", ek, ak, yv, ed, up, NoYear)

NextDag == RunTask \/ Next

SpecDag == InitDag /\ [][NextDag]_vars

-----------------------------------------------------------------------------
\* main run on a one-row table whose point ranges over a grid around the
\* trapezoid

Centroid == <<673, 300>>

GridRow(p) == [TeamName |-> "Team", AdjTempo |-> p[1], AdjEM |-> p[2]]

InitGrid ==
    \E p \in GridPoints \cup {Centroid} :
        Entry("main", Str("k_env"), NoneVal, NoStr, NoDate,
              [status |-> 200, data |-> <<GridRow(p)>>], IntYear(2025))

SpecGrid == InitGrid /\ [][Next]_vars

-----------------------------------------------------------------------------
\* Vocabulary of the properties

Terminal == pc \in {"returned", "raised"}

\* the classification loop of create_plot has run out of rows
LoopDone == Len(trace) = 3 /\ idx = Len(df)

FigureBuilt == fig # <<>>

NonEmptyKey(v) == v.kind = "str" /\ v.s # ""

CredentialAbsent == ~NonEmptyKey(env_key) /\ ~NonEmptyKey(airflow_key)

Occurrences(list, i) == Cardinality({k \in DOMAIN list : list[k] = i})

Increasing(list) == \A j, k \in DOMAIN list : j < k => list[j] < list[k]

TraceIdx(name) == {k \in DOMAIN fig : fig[k].name = name}

Logged(level) == \E k \in DOMAIN log : log[k].level = level

OutsideBBox(row) ==
    \/ row.AdjTempo < 625 \/ row.AdjTempo > 720
    \/ row.AdjEM < 200 \/ row.AdjEM > 400

DecimalDigit(d) ==
    CASE d = 0 -> "0" [] d = 1 -> "1" [] d = 2 -> "2" [] d = 3 -> "3"
      [] d = 4 -> "4" [] d = 5 -> "5" [] d = 6 -> "6" [] d = 7 -> "7"
      [] d = 8 -> "8" [] OTHER -> "9"

RECURSIVE NatChars(_)
NatChars(n) ==
    IF n < 10 THEN <<DecimalDigit(n)>>
    ELSE Append(NatChars(n \div 10), DecimalDigit(n % 10))

\* str(n)
IntChars(n) == IF n < 0 THEN <<"-">> \o NatChars(0 - n) ELSE NatChars(n)

DecimalDigits == {"0", "1", "2", "3", "4", "5", "6", "7", "8", "9"}

\* an optional minus sign and at least one decimal digit
Numeral(s) ==
    LET body == IF s # <<>> /\ s[1] = "-" THEN Tail(s) ELSE s
    IN  body # <<>> /\ \A k \in DOMAIN body : body[k] \in DecimalDigits

\* a numeral that is the decimal rendering of its value
Canonical(s) ==
    LET body == IF s # <<>> /\ s[1] = "-" THEN Tail(s) ELSE s
    IN  /\ Numeral(s)
        /\ Len(body) > 1 => body[1] # "0"
        /\ s # <<"-", "0">>

-----------------------------------------------------------------------------
\* C1: once the classification loop is over, every row index 0..len(df)-1
\* occurs exactly once in inside_trapezoid and outside_trapezoid taken
\* together, and the two lengths add up to the number of rows.
C1_Partition ==
    LoopDone =>
        /\ \A i \in 0..(Len(df) - 1) :
              Occurrences(inside_trapezoid, i) + Occurrences(outside_trapezoid, i) = 1
        /\ Len(inside_trapezoid) + Len(outside_trapezoid) = Len(df)

C1_Witness ==
    /\ LoopDone
    /\ Len(df) >= 3
    /\ inside_trapezoid # <<>>
    /\ outside_trapezoid # <<>>

\* C2: with no credential in the environment or the Airflow Variable store,
\* no HTTP request is ever issued, main never returns, rendering never
\* starts, and once acquisition was reached main raises the ValueError.
C2_NoCredentialNoRequest ==
    CredentialAbsent =>
        /\ requests = <<>>
        /\ result.kind # "return"
        /\ Len(trace) <= 2
        /\ (pc = "raised" /\ dir_created) =>
              result = [kind |-> "raise", value |-> "ValueError"]

C2_Witness ==
    /\ CredentialAbsent
    /\ pc = "raised"
    /\ result = [kind |-> "raise", value |-> "ValueError"]
    /\ requests = <<>>

\* C3: when the API answers with a 4xx or 5xx status, neither the HTML nor
\* the PNG file is written, main never returns a path, and once the request
\* was made main raises the HTTPError.
C3_UpstreamErrorNoArtifact ==
    upstream.status >= 400 =>
        /\ ~html_written
        /\ ~png_written
        /\ result.kind # "return"
        /\ (pc = "raised" /\ requests # <<>>) =>
              result = [kind |-> "raise", value |-> "HTTPError"]

C3_Witness ==
    /\ upstream.status = 500
    /\ Len(requests) = 1
    /\ pc = "raised"
    /\ result = [kind |-> "raise", value |-> "HTTPError"]
    /\ ~html_written /\ ~png_written

\* C4: after the HTML write succeeded and the PNG export failed, no
\* exception is in flight, a warning is in the log, and main goes on to
\* return the HTML path.
C4_PngFailureTolerated ==
    (html_written /\ ~png_written /\ pc # "write_png") =>
        /\ pc \in {"summary", "returned"}
        /\ error = "none"
        /\ Logged("WARNING")
        /\ pc = "returned" => result = [kind |-> "return", value |-> output_path]

C4_Witness ==
    /\ pc = "returned"
    /\ html_written /\ ~png_written
    /\ Logged("WARNING")
    /\ result = [kind |-> "return", value |-> output_path]

\* C5: once the credential has been resolved: a non-empty environment value
\* is the key and the Airflow store is not consulted; otherwise the store is
\* consulted and a non-empty value from it is the key; the ValueError is
\* raised exactly when both are empty, absent or the lookup raised; the
\* request carries the winning key.
C5_PrecedenceChain ==
    Len(trace) >= 2 =>
        /\ NonEmptyKey(env_key) => (API_KEY = env_key /\ ~airflow_consulted)
        /\ ~NonEmptyKey(env_key) => airflow_consulted
        /\ (~NonEmptyKey(env_key) /\ NonEmptyKey(airflow_key)) => API_KEY = airflow_key
        /\ (error = "ValueError") <=> CredentialAbsent
        /\ requests # <<>> =>
              requests[1].authorization =
                  (IF NonEmptyKey(env_key) THEN env_key.s ELSE airflow_key.s)

C5_Witness ==
    /\ ~NonEmptyKey(env_key)
    /\ airflow_key = Str("k_airflow")
    /\ airflow_consulted
    /\ Len(requests) = 1
    /\ requests[1].authorization = "k_airflow"

\* C6: the stages start in the order makedirs, fetch_kenpom_data,
\* create_plot; main returns the HTML path only after all three ran without
\* an exception; an exception ends main by being logged at ERROR level and
\* re-raised; after a failed acquisition create_plot never starts.
C6_SequentialAbort ==
    /\ \A k \in DOMAIN trace :
          trace[k] = <<"makedirs", "fetch_kenpom_data", "create_plot">>[k]
    /\ result.kind = "return" =>
          /\ Len(trace) = 3
          /\ error = "none"
          /\ dir_created /\ Len(requests) = 1 /\ FigureBuilt /\ html_written
          /\ result.value = output_path
    /\ (Terminal /\ error # "none") =>
          /\ pc = "raised"
          /\ result = [kind |-> "raise", value |-> error]
          /\ log[Len(log)] = Error(error)
    /\ error \in {"ValueError", "HTTPError"} => (Len(trace) = 2 /\ ~FigureBuilt)
    /\ (error = "OSError" /\ ~dir_created) => (Len(trace) = 1 /\ requests = <<>>)

C6_Witness ==
    /\ pc = "raised"
    /\ error = "HTTPError"
    /\ result = [kind |-> "raise", value |-> "HTTPError"]
    /\ trace = <<"makedirs", "fetch_kenpom_data">>
    /\ log[Len(log)].level = "ERROR"

\* C7: once the classification loop is over, each of the two index lists is
\* in increasing input order, and each data list holds the rows of its index
\* list in the same order.
C7_OrderPreserved ==
    LoopDone =>
        /\ Increasing(inside_trapezoid)
        /\ Increasing(outside_trapezoid)
        /\ Len(inside_data) = Len(inside_trapezoid)
        /\ Len(outside_data) = Len(outside_trapezoid)
        /\ \A k \in DOMAIN inside_trapezoid :
              inside_data[k].name = df[inside_trapezoid[k] + 1].TeamName
        /\ \A k \in DOMAIN outside_trapezoid :
              outside_data[k].name = df[outside_trapezoid[k] + 1].TeamName

C7_Witness ==
    /\ LoopDone
    /\ Len(outside_trapezoid) >= 2
    /\ Len(inside_trapezoid) >= 1
    /\ outside_data[1].name # outside_data[2].name

\* C8 as stated: every figure has exactly the outline, then one outside
\* marker trace, then one inside marker trace, with as many points as rows
\* classified outside and inside.
C8_AlwaysThreeTraces ==
    FigureBuilt =>
        /\ Len(fig) = 3
        /\ fig[1].mode = "lines"
        /\ fig[2].name = "Outside Trapezoid"
        /\ fig[3].name = "Inside Trapezoid"
        /\ Len(fig[2].x) = Len(outside_trapezoid)
        /\ Len(fig[3].x) = Len(inside_trapezoid)

\* C8 amended: every figure starts with the closed outline trace; it has an
\* outside marker trace exactly when some row is outside and an inside
\* marker trace exactly when some row is inside; a marker trace that is
\* present has as many points as rows classified that way.
C8_TracesMatchClassification ==
    FigureBuilt =>
        /\ fig[1].mode = "lines"
        /\ fig[1].x[1] = fig[1].x[Len(fig[1].x)]
        /\ fig[1].y[1] = fig[1].y[Len(fig[1].y)]
        /\ \A k \in 2..Len(fig) : fig[k].mode = "markers"
        /\ Len(fig) = 1 + Cardinality(TraceIdx("Outside Trapezoid"))
                        + Cardinality(TraceIdx("Inside Trapezoid"))
        /\ Cardinality(TraceIdx("Outside Trapezoid")) =
              (IF outside_trapezoid # <<>> THEN 1 ELSE 0)
        /\ Cardinality(TraceIdx("Inside Trapezoid")) =
              (IF inside_trapezoid # <<>> THEN 1 ELSE 0)
        /\ \A k \in TraceIdx("Outside Trapezoid") :
              /\ fig[k].symbol = "circle"
              /\ Len(fig[k].x) = Len(outside_trapezoid)
              /\ Len(fig[k].y) = Len(outside_trapezoid)
              /\ Len(fig[k].text) = Len(outside_trapezoid)
        /\ \A k \in TraceIdx("Inside Trapezoid") :
              /\ fig[k].symbol = "star"
              /\ Len(fig[k].x) = Len(inside_trapezoid)
              /\ Len(fig[k].y) = Len(inside_trapezoid)
              /\ Len(fig[k].text) = Len(inside_trapezoid)

C8_Witness ==
    /\ FigureBuilt
    /\ Len(df) = 3
    /\ Len(fig) = 3
    /\ fig[2].name = "Outside Trapezoid" /\ Len(fig[2].x) = 2
    /\ fig[3].name = "Inside Trapezoid" /\ Len(fig[3].x) = 1
    /\ fig[3].x[1] = Centroid[1] /\ fig[3].y[1] = Centroid[2]

\* C9: a one-row table whose point lies outside the box tempo 62.5..72,
\* margin 20..40 is classified outside, and the row at the centroid
\* (67.3, 30) of the four vertices is classified inside.
C9_BBoxAndCentroid ==
    (LoopDone /\ Len(df) = 1) =>
        /\ OutsideBBox(df[1]) =>
              (inside_trapezoid = <<>> /\ outside_trapezoid = <<0>>)
        /\ <<df[1].AdjTempo, df[1].AdjEM>> = Centroid =>
              (inside_trapezoid = <<0>> /\ outside_trapezoid = <<>>)

C9_Witness ==
    /\ LoopDone
    /\ Len(df) = 1
    /\ df[1].AdjTempo < 625 /\ df[1].AdjEM > 200 /\ df[1].AdjEM < 400
    /\ outside_trapezoid = <<0>>

\* C10: once the task has resolved the year, main's year is an integer; it
\* is the value of the KENPOM_YEAR override when that is a decimal numeral;
\* it is the execution date's year, or 2026 without one, when the override
\* is missing, empty, unreadable or not a numeral; and the task has failed
\* before main only if the output directory could not be made.
C10_YearAlwaysResolved ==
    pc # "task" =>
        /\ year.kind = "int"
        /\ (year_var.kind = "str" /\ Canonical(year_var.s)) =>
              IntChars(year.val) = year_var.s
        /\ (year_var.kind # "str" \/ ~Numeral(year_var.s)) =>
              year.val = (IF execution_date.kind = "date"
                          THEN execution_date.year ELSE 2026)
        /\ pc = "task_raised" => (error = "OSError" /\ ~dir_created)

C10_Witness ==
    /\ pc = "fetch"
    /\ year_var.kind = "str"
    /\ year_var.s # <<>>
    /\ ~Numeral(year_var.s)
    /\ execution_date = NoDate
    /\ year = IntYear(2026)

====
